---------------------------- MODULE Spec2Model ----------------------------
(***************************************************************************)
(* SunCalc-WASM: the loader and wrapper API of src/src/index.ts (lines     *)
(* 163-232) and the AssemblyScript core it exposes (lines 237-601).        *)
(*                                                                         *)
(* Number representation.  TLC has 32-bit integers and no floating point,  *)
(* so the f64 values of the core are held in fixed point:                  *)
(*   - an angle (radians in the source) is an integer count of             *)
(*     millidegrees: PI is 180000 units and TO_RAD, the factor from        *)
(*     degrees, is 1000;                                                   *)
(*   - a sine, cosine or ratio is an integer count of 1/SC;                *)
(*   - a degree-valued f64 (a latitude, a threshold altitude) is an        *)
(*     integer count of 1/DegScale degree;                                 *)
(*   - a day-valued f64 (a Julian day, days since J2000) is a record       *)
(*     [w, f]: w whole days and f ticks, a tick being half a millisecond,  *)
(*     0 <= f < TicksPerDay;                                               *)
(*   - a millisecond-valued f64 (a timestamp argument, the product inside  *)
(*     fromJulian) is a record [s, ms, half]: s*1000 + ms + half/2 ms;     *)
(*   - a 64-bit integer is a record [hi, s, ms]: hi*2^64 + s*1000 + ms,    *)
(*     with |s*1000 + ms| < 2^63, so an i64 has hi = 0 and the u64 read of *)
(*     a negative i64 has hi = 1;                                          *)
(*   - NaN is a value of its own in each of the f64 representations.       *)
(* The fixed-point arithmetic truncates where the f64 arithmetic of the    *)
(* source rounds to nearest at 2^-52 relative.                             *)
(***************************************************************************)
EXTENDS Integers, Sequences, FiniteSets, TLC

VARIABLES
    pc,              \* where the async executor of `ready` stands (lines 166-174)
    exports,         \* the module-level `exports` is assigned (line 163, 169)
    ready,           \* state of the `ready` promise
    nontrappingF2I,  \* the build's float-to-int conversion saturates (else it traps)
    SunTimeValue,    \* the `value` field of the six static SunTime objects
    call             \* the latest wrapper call: function, arguments, outcome

vars == <<pc, exports, ready, nontrappingF2I, SunTimeValue, call>>

(***************************************************************************)
(* Program constants.                                                      *)
(***************************************************************************)
MILLISECONDS_PER_DAY == 86400000
J1970 == 2440588
J2000 == 2451545
\* Math.PI and PI / 180, in angle units (millidegrees)
PI == 180000
TO_RAD == 1000
\* one unit of a sine, cosine or ratio is 1/SC
SC == 10 ^ 4
\* one unit of a degree-valued f64 (a latitude, a threshold altitude, the
\* degrees inside the linear formulas) is 1/DegScale degree
DegScale == 10 ^ 4
\* ticks (half milliseconds) in a day, and seconds in a day
TicksPerDay == 2 * MILLISECONDS_PER_DAY
SecondsPerDay == MILLISECONDS_PER_DAY \div 1000
\* 23.4397 and 102.9372 degrees
OBLIQUITY_OF_EARTH == (234397 * TO_RAD) \div 10000
PERIHELION_OF_EARTH == (1029372 * TO_RAD) \div 10000
\* 0.0009 day, in ticks
J0 == 9 * (TicksPerDay \div 10000)

(***************************************************************************)
(* f64 values: NaN, and the helpers of the fixed-point arithmetic.         *)
(***************************************************************************)
NaN == -(2^30)
NaNDay == [w |-> NaN, f |-> 0]
NaNMs == [s |-> NaN, ms |-> 0, half |-> 0]

IsNaN(x) == x = NaN
IsNaNDay(d) == d.w = NaN
IsNaNMs(t) == t.s = NaN

Abs(x) == IF x < 0 THEN -x ELSE x
Max(a, b) == IF a >= b THEN a ELSE b
\* division rounding toward zero
Quot(a, k) == IF a >= 0 THEN a \div k ELSE -((-a) \div k)
\* a * s / SC for a >= 0 too large to multiply first
MulFrac(a, s) == (a \div SC) * s + ((a % SC) * s) \div SC

\* a day-valued f64 from whole days and ticks, the ticks carried into the days
Day(w, f) == [w |-> w + (f \div TicksPerDay), f |-> f % TicksPerDay]
DayAdd(a, b) == IF IsNaNDay(a) \/ IsNaNDay(b) THEN NaNDay ELSE Day(a.w + b.w, a.f + b.f)
DaySub(a, b) == IF IsNaNDay(a) \/ IsNaNDay(b) THEN NaNDay ELSE Day(a.w - b.w, a.f - b.f)
DayLeq(a, b) == a.w < b.w \/ (a.w = b.w /\ a.f <= b.f)

RECURSIVE SqrtSearch(_, _, _)
SqrtSearch(n, lo, hi) ==
    IF lo >= hi THEN lo
    ELSE LET mid == (lo + hi + 1) \div 2
         IN  IF mid * mid <= n THEN SqrtSearch(n, mid, hi) ELSE SqrtSearch(n, lo, mid - 1)
\* floor of the square root; NaN below zero
ISqrt(n) == IF IsNaN(n) \/ n < 0 THEN NaN ELSE SqrtSearch(n, 0, 46340)

(***************************************************************************)
(* Math.sin, cos, tan, acos, asin, atan2, round (lines 285-291).           *)
(* The sine is tabulated per degree and interpolated; the inverse          *)
(* functions search it.                                                    *)
(***************************************************************************)
SinTable ==
    << 0, 175, 349, 523, 698, 872, 1045, 1219, 1392, 1564,
       1736, 1908, 2079, 2250, 2419, 2588, 2756, 2924, 3090, 3256,
       3420, 3584, 3746, 3907, 4067, 4226, 4384, 4540, 4695, 4848,
       5000, 5150, 5299, 5446, 5592, 5736, 5878, 6018, 6157, 6293,
       6428, 6561, 6691, 6820, 6947, 7071, 7193, 7314, 7431, 7547,
       7660, 7771, 7880, 7986, 8090, 8192, 8290, 8387, 8480, 8572,
       8660, 8746, 8829, 8910, 8988, 9063, 9135, 9205, 9272, 9336,
       9397, 9455, 9511, 9563, 9613, 9659, 9703, 9744, 9781, 9816,
       9848, 9877, 9903, 9925, 9945, 9962, 9976, 9986, 9994, 9998, 10000 >>

\* the sine of an angle of the first quadrant
SinQ1(x) ==
    LET k == x \div TO_RAD
        fr == x % TO_RAD
    IN  IF k >= 90 THEN SinTable[91]
        ELSE SinTable[k + 1] + ((SinTable[k + 2] - SinTable[k + 1]) * fr) \div TO_RAD

sin(a) ==
    IF IsNaN(a) THEN NaN
    ELSE LET r == a % (2 * PI)
         IN  IF r <= PI \div 2 THEN SinQ1(r)
             ELSE IF r <= PI THEN SinQ1(PI - r)
             ELSE IF r <= 3 * (PI \div 2) THEN -SinQ1(r - PI)
             ELSE -SinQ1(2 * PI - r)

cos(a) == IF IsNaN(a) THEN NaN ELSE sin(a + PI \div 2)

tan(a) == IF IsNaN(a) THEN NaN ELSE Quot(sin(a) * SC, cos(a))

\* the cosine of k whole degrees, k in 0..180
CosDeg(k) == IF k <= 90 THEN SinTable[91 - k] ELSE -SinTable[k - 89]

RECURSIVE AcosSearch(_, _, _)
\* the least whole number of degrees of lo..hi whose cosine is at most x
AcosSearch(x, lo, hi) ==
    IF lo >= hi THEN hi
    ELSE IF CosDeg((lo + hi) \div 2) <= x
         THEN AcosSearch(x, lo, (lo + hi) \div 2)
         ELSE AcosSearch(x, (lo + hi) \div 2 + 1, hi)

\* the angle between k - 1 and k degrees whose interpolated cosine is x
AcosInterp(x, k) ==
    IF k = 0 THEN 0
    ELSE (k - 1) * TO_RAD
         + ((CosDeg(k - 1) - x) * TO_RAD) \div (CosDeg(k - 1) - CosDeg(k))

\* NaN outside [-1, 1], else an angle of [0, PI]
acos(x) ==
    IF IsNaN(x) \/ x > SC \/ x < -SC THEN NaN
    ELSE AcosInterp(x, AcosSearch(x, 0, PI \div TO_RAD))

asin(x) ==
    LET a == acos(x)
    IN  IF IsNaN(a) THEN NaN ELSE PI \div 2 - a

\* the angle of the point (x, y), in [-PI, PI]; the point is first scaled into
\* the range of a ratio
atan2(y, x) ==
    IF IsNaN(y) \/ IsNaN(x) THEN NaN
    ELSE IF x = 0 /\ y = 0 THEN 0
    ELSE LET k == (Max(Abs(x), Abs(y)) \div SC) + 1
             xs == Quot(x, k)
             ys == Quot(y, k)
             r == Max(ISqrt(xs * xs + ys * ys), 1)
             c == Quot(xs * SC, r)
             a == acos(IF c > SC THEN SC ELSE IF c < -SC THEN -SC ELSE c)
         IN  IF y >= 0 THEN a ELSE -a

\* Math.round of a day-valued f64: to the nearest whole number of days, a half
\* going up (toward plus infinity)
round(d) == IF IsNaNDay(d) THEN NaN ELSE IF 2 * d.f >= TicksPerDay THEN d.w + 1 ELSE d.w

\* a rounding that sends a half away from zero, as C's round does: the variant
\* of roundMs that the rounding property of fromJulian must tell apart
roundMsHalfAway(t) ==
    IF IsNaNMs(t) THEN NaNMs
    ELSE IF t.s < 0 THEN [s |-> t.s, ms |-> t.ms, half |-> 0]
    ELSE [s |-> t.s + ((t.ms + t.half) \div 1000), ms |-> (t.ms + t.half) % 1000, half |-> 0]

\* Math.round of a millisecond-valued f64: a half goes up (toward plus infinity)
roundMs(t) ==
    IF IsNaNMs(t) THEN NaNMs
    ELSE LET m == t.ms + t.half
         IN  [s |-> t.s + (m \div 1000), ms |-> m % 1000, half |-> 0]

(***************************************************************************)
(* Date/time conversions (lines 275-302).                                  *)
(***************************************************************************)
\* <f64>timestamp / <f64>MILLISECONDS_PER_DAY
DivMsPerDay(t) ==
    IF IsNaNMs(t) THEN NaNDay
    ELSE Day(t.s \div SecondsPerDay, 2 * ((t.s % SecondsPerDay) * 1000 + t.ms) + t.half)

\* x * MILLISECONDS_PER_DAY
MulMsPerDay(d) ==
    IF IsNaNDay(d) THEN NaNMs
    ELSE [s |-> d.w * SecondsPerDay + (d.f \div 2000),
          ms |-> (d.f \div 2) % 1000,
          half |-> d.f % 2]

toJulian(timestamp) ==
    DayAdd(DaySub(DivMsPerDay(timestamp), Day(0, TicksPerDay \div 2)), Day(J1970, 0))

\* `as i64` of a rounded f64: an i64.trunc_f64_s, which traps on NaN, or with the
\* nontrapping-f2i feature an i64.trunc_sat_f64_s, which gives 0
F64AsI64(t) ==
    IF IsNaNMs(t)
    THEN [hi |-> 0, s |-> 0, ms |-> 0, trap |-> ~nontrappingF2I]
    ELSE [hi |-> 0, s |-> t.s, ms |-> t.ms, trap |-> FALSE]

\* an i64 returned as Timestamp = u64: the same 64 bits read unsigned
I64AsU64(v) == [v EXCEPT !.hi = IF v.s < 0 THEN 1 ELSE 0]

fromJulian(j) ==
    I64AsU64(F64AsI64(roundMs(MulMsPerDay(
        DaySub(DayAdd(j, Day(0, TicksPerDay \div 2)), Day(J1970, 0))))))

toDays(timestamp) == DaySub(toJulian(timestamp), Day(J2000, 0))

(***************************************************************************)
(* Degree-valued and day-valued helpers of the linear formulas.            *)
(***************************************************************************)
\* x * TO_RAD, x degree-valued: the angle of x degrees
TimesToRad(x) == IF IsNaN(x) THEN NaN ELSE Quot(x, DegScale \div TO_RAD)

\* x * Math.PI / 180.0, x degree-valued
TimesPiBy180(x) == IF IsNaN(x) THEN NaN ELSE Quot(x * (PI \div 180), DegScale)

\* (k + num/den) * d degrees, d day-valued and the rate k + num/den in
\* 1/DegScale degree per day; the part of a day is split at 1/1000 day so that
\* no product leaves the 32 bits
RateTimesDay(k, num, den, d) ==
    IF IsNaNDay(d) THEN NaN
    ELSE LET milli == d.f \div (TicksPerDay \div 1000)
             rest == d.f % (TicksPerDay \div 1000)
         IN  d.w * k + ((d.w * num) \div den)
             + (k \div 1000) * milli + (((k % 1000) * milli) \div 1000)
             + (((k \div 1000) * rest) \div (TicksPerDay \div 1000))

\* x || 0 of an f64: NaN and 0 are falsy
OrZero(x) == IF IsNaN(x) THEN 0 ELSE x

\* an angle as a radian-valued f64 in units of 1/1000000, and a radian-valued
\* f64 in units of 1/SC as an angle (Math.PI is 3.14159265...)
AngleToMicroRad(a) == Quot(a * 17453, 1000)
RadToAngle(r) == Quot(r * 572958, 100000)

\* a / (2.0 * PI) days, a an angle
OverTwoPi(a) == a * (TicksPerDay \div (2 * PI))

(***************************************************************************)
(* General calculations for position (lines 306-331).                      *)
(***************************************************************************)
rightAscension(l, b) ==
    IF IsNaN(l) \/ IsNaN(b) THEN NaN
    ELSE atan2(Quot(sin(l) * cos(OBLIQUITY_OF_EARTH), SC)
                 - Quot(tan(b) * sin(OBLIQUITY_OF_EARTH), SC),
               cos(l))

declination(l, b) ==
    IF IsNaN(l) \/ IsNaN(b) THEN NaN
    ELSE asin(Quot(sin(b) * cos(OBLIQUITY_OF_EARTH), SC)
              + Quot(Quot(cos(b) * sin(OBLIQUITY_OF_EARTH), SC) * sin(l), SC))

(***************************************************************************)
(* General sun calculations (lines 335-345).                               *)
(***************************************************************************)
solar_mean_anomaly(d) ==
    IF IsNaNDay(d) THEN NaN
    ELSE TimesToRad(3575291 + RateTimesDay(9856, 28, 10000, d))

equationOfCenter(m) ==
    IF IsNaN(m) THEN NaN
    ELSE TimesToRad((19148 * sin(m) + 200 * sin(2 * m) + 3 * sin(3 * m)) \div SC)

eclipticLongitude(m) ==
    IF IsNaN(m) THEN NaN ELSE m + equationOfCenter(m) + PERIHELION_OF_EARTH + PI

(***************************************************************************)
(* Calculations for sun times (lines 349-377).                             *)
(***************************************************************************)
julianCycle(d, lw) ==
    IF IsNaNDay(d) \/ IsNaN(lw) THEN NaN
    ELSE round(DaySub(DaySub(d, Day(0, J0)), Day(0, OverTwoPi(lw))))

approxTransit(h_t, lw, n) ==
    IF IsNaN(h_t) \/ IsNaN(lw) \/ IsNaN(n) THEN NaNDay
    ELSE Day(n, J0 + OverTwoPi(h_t + lw))

solarTransitJ(ds, m, l) ==
    IF IsNaNDay(ds) \/ IsNaN(m) \/ IsNaN(l) THEN NaNDay
    ELSE DayAdd(DayAdd(Day(J2000, 0), ds),
                Day(0, MulFrac(53 * (TicksPerDay \div 10000), sin(m))
                       - MulFrac(69 * (TicksPerDay \div 10000), sin(2 * l))))

hourAngle(h, phi, dec) ==
    IF IsNaN(h) \/ IsNaN(phi) \/ IsNaN(dec) THEN NaN
    ELSE LET num == sin(h) - Quot(sin(phi) * sin(dec), SC)
             den == Quot(cos(phi) * cos(dec), SC)
         IN  IF den = 0 THEN NaN ELSE acos(Quot(num * SC, den))

\* -2.076 * sqrt(height) / 60.0, degree-valued; height in whole metres
observerAngle(height) ==
    LET root == ISqrt(height * 1000000)
    IN  IF IsNaN(root) THEN NaN
        ELSE -((2076 * root) \div (60 * (1000000 \div DegScale)))

get_set_j(h, lw, phi, dec, n, m, l) ==
    LET w == hourAngle(h, phi, dec)
        a == approxTransit(w, lw, n)
    IN  solarTransitJ(a, m, l)

sunCoords(d) ==
    LET m == solar_mean_anomaly(d)
        l == eclipticLongitude(m)
    IN  [rightAscension |-> rightAscension(l, 0),
         declination |-> declination(l, 0),
         distance |-> 0]

(***************************************************************************)
(* class SunTime (lines 414-441): the six static thresholds and calc.      *)
(***************************************************************************)
SunTimeNames ==
    << "SUNRISE_SUNSET", "SUNRISE_END_SUNSET_START", "DAWN_DUSK",
       "NAUTICAL_DAWN_NAUTICAL_DUSK", "NIGHT_END_NIGHT", "GOLDEN_HOUR_END_GOLDEN_HOUR" >>

\* the static initialisers: -0.833, -0.3, -6.0, -12.0, -18.0, 6.0 degrees
SunTimeStatics ==
    [ SUNRISE_SUNSET |-> -8330,
      SUNRISE_END_SUNSET_START |-> -3000,
      DAWN_DUSK |-> -60000,
      NAUTICAL_DAWN_NAUTICAL_DUSK |-> -120000,
      NIGHT_END_NIGHT |-> -180000,
      GOLDEN_HOUR_END_GOLDEN_HOUR |-> 60000 ]

\* a calc that mirrors with the wrong sign, j_rise = j_noon + (j_set - j_noon):
\* the variant the symmetry of rise and set must tell apart
calcRiseSignSlip(h0, j_noon, j_set) ==
    [h0 |-> h0, j_set |-> j_set, j_rise |-> DayAdd(j_noon, DaySub(j_set, j_noon)),
     times |-> <<fromJulian(DayAdd(j_noon, DaySub(j_set, j_noon))), fromJulian(j_set)>>]

\* the last two statements of calc, h0 and j_set being computed: calc returns
\* [fromJulian(j_rise), fromJulian(j_set)], here `times`; its locals h0, j_set
\* and j_rise are returned with it
calcRise(h0, j_noon, j_set) ==
    LET j_rise == DaySub(j_noon, DaySub(j_set, j_noon))
    IN  [h0 |-> h0, j_set |-> j_set, j_rise |-> j_rise,
         times |-> <<fromJulian(j_rise), fromJulian(j_set)>>]

\* an h0 that takes the height correction for the first pair only: the variant
\* the height dependence of the thresholds must tell apart
calcH0FirstPairOnly(this, dh) ==
    TimesPiBy180(IF IsNaN(dh) THEN NaN
                 ELSE IF this = "SUNRISE_SUNSET" THEN SunTimeValue[this] + dh
                 ELSE SunTimeValue[this])

\* let h0 = (this.value + dh) * Math.PI / 180.0
calcH0(this, dh) ==
    TimesPiBy180(IF IsNaN(dh) THEN NaN ELSE SunTimeValue[this] + dh)

calc(this, j_noon, dh, lw, phi, dec, n, m, l) ==
    calcRise(calcH0(this, dh), j_noon,
             get_set_j(calcH0(this, dh), lw, phi, dec, n, m, l))

(***************************************************************************)
(* getTimes (lines 443-498).  It returns `result`; its local j_noon and    *)
(* the six calc calls, in the order of SunTimeNames, are returned with it. *)
(***************************************************************************)
\* the object getTimes returns, j_noon and the six pairs being computed
SunTimesOf(j_noon, pairs) ==
    [j_noon |-> j_noon,
     pairs |-> pairs,
     result |->
        [solarNoon |-> fromJulian(j_noon),
         nadir |-> fromJulian(DaySub(j_noon, Day(0, TicksPerDay \div 2))),
         sunrise |-> pairs[1].times[1],
         sunset |-> pairs[1].times[2],
         sunsetStart |-> pairs[2].times[2],
         sunrise_end |-> pairs[2].times[1],
         dawn |-> pairs[3].times[1],
         dusk |-> pairs[3].times[2],
         nauticalDawn |-> pairs[4].times[1],
         nauticalDusk |-> pairs[4].times[2],
         nightEnd |-> pairs[5].times[1],
         night |-> pairs[5].times[2],
         goldenHour |-> pairs[6].times[2],
         goldenHourEnd |-> pairs[6].times[1]]]

\* getTimes from `let ds` on
getTimesFrom(lw, phi, dh, n) ==
    LET ds == approxTransit(0, lw, n)
        m == solar_mean_anomaly(ds)
        l == eclipticLongitude(m)
        dec == declination(l, 0)
        j_noon == solarTransitJ(ds, m, l)
    IN  SunTimesOf(j_noon,
                   [i \in 1..6 |-> calc(SunTimeNames[i], j_noon, dh, lw, phi, dec, n, m, l)])

getTimes(timestamp, lat, lon, h) ==
    getTimesFrom(TimesToRad(-lon), TimesToRad(lat), observerAngle(h),
                 julianCycle(toDays(timestamp), TimesToRad(-lon)))

(***************************************************************************)
(* azimuth, altitude, siderealTime, astro_refraction (lines 315-331) and   *)
(* getPosition (lines 397-412).                                            *)
(***************************************************************************)
azimuth(h, phi, dec) ==
    IF IsNaN(h) \/ IsNaN(phi) \/ IsNaN(dec) THEN NaN
    ELSE atan2(sin(h), Quot(cos(h) * sin(phi), SC) - Quot(tan(dec) * cos(phi), SC))

altitude(h, phi, dec) ==
    IF IsNaN(h) \/ IsNaN(phi) \/ IsNaN(dec) THEN NaN
    ELSE asin(Quot(sin(phi) * sin(dec), SC) + Quot(Quot(cos(phi) * cos(dec), SC) * cos(h), SC))

siderealTime(d, lw) ==
    IF IsNaNDay(d) \/ IsNaN(lw) THEN NaN
    ELSE TimesToRad(2801600 + RateTimesDay(3609856, 235, 1000, d)) - lw

\* tan(0.0002967 / (hh + 0.00312536 / (hh + 0.08901179))), as an angle
astro_refraction(h) ==
    IF IsNaN(h) THEN NaN
    ELSE LET hh == IF h < 0 THEN 0 ELSE AngleToMicroRad(h)
             inner == Quot(312536 * 1000, hh + 89012) * 10
             x == Quot(296700000, hh + inner)
         IN  RadToAngle(tan(Quot(x * 1000, 17453)))

getPosition(timestamp, lat, lon) ==
    LET lw == TimesToRad(-lon)
        phi == TimesToRad(lat)
        d == toDays(timestamp)
        m == solar_mean_anomaly(d)
        l == eclipticLongitude(m)
        dec == declination(l, 0)
        ra == rightAscension(l, 0)
        h == IF IsNaN(ra) THEN NaN ELSE siderealTime(d, lw) - ra
    IN  [azimuth |-> azimuth(h, phi, dec),
         altitude |-> altitude(h, phi, dec),
         distance |-> 0,
         parallacticAngle |-> 0]

(***************************************************************************)
(* General moon calculations (lines 502-585).                              *)
(***************************************************************************)
lunarMeanAnomaly(d) ==
    IF IsNaNDay(d) THEN NaN ELSE TimesToRad(1349630 + RateTimesDay(130649, 93, 100, d))

lunarEclipticLongitude(d) ==
    IF IsNaNDay(d) THEN NaN ELSE TimesToRad(2183160 + RateTimesDay(131763, 96, 100, d))

lunarMeanDistance(d) ==
    IF IsNaNDay(d) THEN NaN ELSE TimesToRad(932720 + RateTimesDay(132293, 50, 100, d))

moonCoords(d) ==
    LET l == lunarEclipticLongitude(d)
        m == lunarMeanAnomaly(d)
        f == lunarMeanDistance(d)
        lng == IF IsNaN(l) THEN NaN ELSE l + Quot(6289 * sin(m), SC)
        lat == IF IsNaN(f) THEN NaN ELSE Quot(5128 * sin(f), SC)
        distance == IF IsNaN(m) THEN NaN ELSE 385001 - Quot(20905 * cos(m), SC)
    IN  [rightAscension |-> rightAscension(lng, lat),
         declination |-> declination(lng, lat),
         distance |-> OrZero(distance)]

\* getMoonPosition from `let alt` on; the moon's coordinates c and its hour
\* angle h being computed
getMoonPositionAt(h, phi, c) ==
    LET alt0 == altitude(h, phi, c.declination)
        alt == IF IsNaN(alt0) THEN NaN ELSE alt0 + astro_refraction(alt0)
        pa == IF IsNaN(h) \/ IsNaN(phi) \/ IsNaN(c.declination) THEN NaN
              ELSE atan2(sin(h), Quot(tan(phi) * cos(c.declination), SC)
                                   - Quot(sin(c.declination) * cos(h), SC))
    IN  [azimuth |-> azimuth(h, phi, c.declination),
         altitude |-> alt,
         distance |-> OrZero(c.distance),
         parallacticAngle |-> OrZero(pa)]

\* let h = siderealTime(d, lw) - c.rightAscension
getMoonPositionOf(lw, phi, d, c) ==
    getMoonPositionAt(IF IsNaN(c.rightAscension) THEN NaN
                      ELSE siderealTime(d, lw) - c.rightAscension,
                      phi, c)

getMoonPosition(timestamp, lat, lon) ==
    getMoonPositionOf(TimesToRad(-lon), TimesToRad(lat), toDays(timestamp),
                      moonCoords(toDays(timestamp)))

\* a phase without the factor 0.5 on inc, 0.5 + inc * sign / PI: the variant the
\* range of the phase must tell apart
illuminationPhaseUnhalved(inc, sign) ==
    IF IsNaN(inc) THEN NaN ELSE SC \div 2 + Quot(SC * inc * sign, PI)

\* 0.5 + 0.5 * inc * sign / PI, in units of 1/SC
illuminationPhase(inc, sign) ==
    IF IsNaN(inc) THEN NaN ELSE SC \div 2 + Quot((SC \div 2) * inc * sign, PI)

\* (1.0 + cos(inc)) / 2.0, in units of 1/SC
illuminationFraction(inc) ==
    IF IsNaN(inc) THEN NaN ELSE (SC + cos(inc)) \div 2

\* the object getMoonIllumination returns, phi, inc and angle being computed;
\* the locals phi and inc are returned with it.  NaN < 0.0 is false
IlluminationOf(phi, inc, angle) ==
    [phi |-> phi,
     inc |-> inc,
     result |->
        [angle |-> angle,
         phase |-> illuminationPhase(inc, IF ~IsNaN(angle) /\ angle < 0 THEN -1 ELSE 1),
         fraction |-> illuminationFraction(inc)]]

\* let inc = atan2(sdist * sin(phi), m.distance - sdist * cos(phi))
illuminationInc(phi, m) ==
    IF IsNaN(phi) THEN NaN
    ELSE atan2(MulFrac(149598000, sin(phi)), m.distance - MulFrac(149598000, cos(phi)))

\* getMoonIllumination from `let phi` on, the coordinates s of the sun and m
\* of the moon being computed
getMoonIlluminationOf(s, m) ==
    LET dra == IF IsNaN(s.rightAscension) \/ IsNaN(m.rightAscension) THEN NaN
               ELSE s.rightAscension - m.rightAscension
        phi == IF IsNaN(dra) \/ IsNaN(s.declination) \/ IsNaN(m.declination) THEN NaN
               ELSE acos(Quot(sin(s.declination) * sin(m.declination), SC)
                         + Quot(Quot(cos(s.declination) * cos(m.declination), SC) * cos(dra), SC))
        angle == IF IsNaN(dra) \/ IsNaN(s.declination) \/ IsNaN(m.declination) THEN NaN
                 ELSE atan2(Quot(cos(s.declination) * sin(dra), SC),
                            Quot(sin(s.declination) * cos(m.declination), SC)
                              - Quot(Quot(cos(s.declination) * sin(m.declination), SC) * cos(dra), SC))
    IN  IlluminationOf(phi, illuminationInc(phi, m), angle)

getMoonIllumination(timestamp) ==
    getMoonIlluminationOf(sunCoords(toDays(timestamp)), moonCoords(toDays(timestamp)))

(***************************************************************************)
(* Bounds of the model: the arguments the wrapper calls are made with.     *)
(***************************************************************************)
\* the last day after an epoch that a timestamp argument falls on
MaxDay == 171
\* the northernmost latitude and easternmost longitude, in degrees
MaxLat == 78
\* a latitude between the equator and MaxLat, where only the night pair is
\* undefined in midsummer
MidLat == 50
MaxLon == 15
\* the greatest observer height, in metres
MaxHeight == 100
\* Julian arguments of fromJulian lie up to MaxTie / 2048 day from the epoch
MaxTie == 3
\* the moon is looked at on noons a week apart, up to MaxWeeks weeks before MaxDay
MaxWeeks == 4

\* the millisecond-valued f64 of `sec` seconds into day `day` after 1970-01-01
Stamp(day, sec) == [s |-> day * SecondsPerDay + sec, ms |-> 0, half |-> 0]

\* noon of 1970-01-01 and of MaxDay days later (midsummer)
Timestamps == {Stamp(0, SecondsPerDay \div 2), Stamp(MaxDay, SecondsPerDay \div 2)}
\* noon of 2000-01-01 (J2000) and of MaxDay days later
TimestampsJ2000 ==
    {Stamp(J2000 - J1970, SecondsPerDay \div 2), Stamp(J2000 - J1970 + MaxDay, SecondsPerDay \div 2)}
\* -1 ms, 0 and 1 ms, and the timestamps above
TimestampsNearEpoch ==
    {[s |-> -1, ms |-> 999, half |-> 0], [s |-> 0, ms |-> 0, half |-> 0],
     [s |-> 0, ms |-> 1, half |-> 0]} \cup Timestamps
\* noons a week apart over a lunar month, the J2000 noons, and NaN
MoonTimestamps ==
    {Stamp(MaxDay - 7 * k, SecondsPerDay \div 2) : k \in 0..MaxWeeks}
        \cup TimestampsJ2000 \cup {NaNMs}
\* the equator, the middle latitude and the northernmost latitude
Latitudes == {0, MidLat * DegScale, MaxLat * DegScale}
Longitudes == {0, MaxLon * DegScale}
Heights == {0, MaxHeight}
\* the Julian days k / 2048 day from 1970-01-01T00:00: k * 42187.5 ms, so an
\* odd k is a tie of the rounding in fromJulian; and NaN
JulianDays ==
    {Day(J1970 - 1, TicksPerDay \div 2 + k * (TicksPerDay \div 2048)) : k \in -MaxTie..MaxTie}
        \cup {NaNDay}
\* days since J2000
DaysSinceJ2000 == {Day(0, 0), Day(-MaxDay, TicksPerDay \div 2), NaNDay}

(***************************************************************************)
(* Initialization (lines 163-174).                                         *)
(***************************************************************************)
NoCall ==
    [fn |-> "none", args |-> <<>>, status |-> "none", readyAtCall |-> FALSE,
     out |-> <<>>, locals |-> <<>>]

Init ==
    /\ pc = "await_wasm"
    /\ exports = FALSE
    /\ ready = "pending"
    /\ nontrappingF2I \in BOOLEAN
    /\ SunTimeValue = [n \in DOMAIN SunTimeStatics |-> NaN]
    /\ call = NoCall

\* `await wasm` is settled with the bytes: WebAssembly.compile is called
WasmRead ==
    /\ pc = "await_wasm"
    /\ pc' = "await_compile"
    /\ UNCHANGED <<exports, ready, nontrappingF2I, SunTimeValue, call>>

\* the compile promise is fulfilled: instantiate is called
Compiled ==
    /\ pc = "await_compile"
    /\ pc' = "await_instantiate"
    /\ UNCHANGED <<exports, ready, nontrappingF2I, SunTimeValue, call>>

\* a loader that resolves `ready` and leaves the module-level `exports`
\* unassigned: the variant the initialization gate must tell apart
InstantiatedUnassigned ==
    /\ pc = "await_instantiate"
    /\ pc' = "done"
    /\ SunTimeValue' = SunTimeStatics
    /\ ready' = "fulfilled"
    /\ UNCHANGED <<exports, nontrappingF2I, call>>

\* the instantiate promise is fulfilled: the module's statics exist, `exports`
\* is assigned and resolve() is called, in one run of the executor
Instantiated ==
    /\ pc = "await_instantiate"
    /\ pc' = "done"
    /\ SunTimeValue' = SunTimeStatics
    /\ exports' = TRUE
    /\ ready' = "fulfilled"
    /\ UNCHANGED <<nontrappingF2I, call>>

\* one of the awaited promises is rejected: catch (e) { reject(e) }
LoadFailed ==
    /\ pc \in {"await_wasm", "await_compile", "await_instantiate"}
    /\ pc' = "failed"
    /\ ready' = "rejected"
    /\ UNCHANGED <<exports, nontrappingF2I, SunTimeValue, call>>

(***************************************************************************)
(* Wrapper API (lines 178-232).  Each wrapper throws when `exports` is not *)
(* assigned and else returns what the export returns; an export that traps *)
(* ends the call with a RuntimeError.                                      *)
(***************************************************************************)
Wrapper(fn, args, outcome) ==
    /\ call' =
          IF ~exports
          THEN [fn |-> fn, args |-> args, status |-> "throw",
                readyAtCall |-> (ready = "fulfilled"), out |-> <<>>, locals |-> <<>>]
          ELSE IF outcome.trapped
          THEN [fn |-> fn, args |-> args, status |-> "trap",
                readyAtCall |-> (ready = "fulfilled"), out |-> <<>>,
                locals |-> outcome.locals]
          ELSE [fn |-> fn, args |-> args, status |-> "ok",
                readyAtCall |-> (ready = "fulfilled"), out |-> outcome.result,
                locals |-> outcome.locals]
    /\ UNCHANGED <<pc, exports, ready, nontrappingF2I>>

\* the outcome of an export that cannot trap
Returned(result) == [trapped |-> FALSE, result |-> result, locals |-> <<>>]

\* the outcome of exports.getTimes: it traps when one of its fromJulian calls does
SunTimesOutcome(r) ==
    [trapped |-> \E k \in DOMAIN r.result : r.result[k].trap,
     result |-> r.result,
     locals |-> [j_noon |-> r.j_noon, pairs |-> r.pairs]]

\* a getTimes whose calc adds dh into the static threshold it reads
\* (this.value += dh): the variant the absence of hidden state must tell apart
GetTimesMutating(timestamp, latitude, longitude, height) ==
    /\ Wrapper("getTimes", <<timestamp, latitude, longitude, height>>,
               SunTimesOutcome(getTimes(timestamp, latitude, longitude, height)))
    /\ SunTimeValue' =
          IF exports
          THEN [n \in DOMAIN SunTimeValue |-> SunTimeValue[n] + observerAngle(height)]
          ELSE SunTimeValue

GetTimes(timestamp, latitude, longitude, height) ==
    /\ Wrapper("getTimes", <<timestamp, latitude, longitude, height>>,
               SunTimesOutcome(getTimes(timestamp, latitude, longitude, height)))
    /\ UNCHANGED SunTimeValue

IlluminationOutcome(r) ==
    [trapped |-> FALSE, result |-> r.result, locals |-> [phi |-> r.phi, inc |-> r.inc]]

GetMoonIllumination(timestamp) ==
    /\ Wrapper("getMoonIllumination", <<timestamp>>,
               IlluminationOutcome(getMoonIllumination(timestamp)))
    /\ UNCHANGED SunTimeValue

GetMoonPosition(timestamp, latitude, longitude) ==
    /\ Wrapper("getMoonPosition", <<timestamp, latitude, longitude>>,
               Returned(getMoonPosition(timestamp, latitude, longitude)))
    /\ UNCHANGED SunTimeValue

GetMoonCoords(d) ==
    /\ Wrapper("getMoonCoords", <<d>>, Returned(moonCoords(d)))
    /\ UNCHANGED SunTimeValue

GetPosition(timestamp, latitude, longitude) ==
    /\ Wrapper("getPosition", <<timestamp, latitude, longitude>>,
               Returned(getPosition(timestamp, latitude, longitude)))
    /\ UNCHANGED SunTimeValue

SunCoords(timestamp) ==
    /\ Wrapper("sunCoords", <<timestamp>>, Returned(sunCoords(timestamp)))
    /\ UNCHANGED SunTimeValue

\* the outcome of exports.fromJulian
TimestampOutcome(r) == [trapped |-> r.trap, result |-> r, locals |-> <<>>]

FromJulian(timestamp) ==
    /\ Wrapper("fromJulian", <<timestamp>>, TimestampOutcome(fromJulian(timestamp)))
    /\ UNCHANGED SunTimeValue

ToJulian(timestamp) ==
    /\ Wrapper("toJulian", <<timestamp>>, Returned(toJulian(timestamp)))
    /\ UNCHANGED SunTimeValue

\* the Julian day the caller holds when its latest call was a toJulian
ToJulianResult ==
    IF call.fn = "toJulian" /\ call.status = "ok" THEN {call.out} ELSE {}

Next ==
    \/ WasmRead
    \/ Compiled
    \/ Instantiated
    \/ LoadFailed
    \/ \E t \in Timestamps, lat \in Latitudes, lon \in Longitudes, h \in Heights :
            GetTimes(t, lat, lon, h)
    \/ \E t \in MoonTimestamps : GetMoonIllumination(t)
    \/ \E t \in TimestampsJ2000, lat \in Latitudes, lon \in Longitudes :
            GetMoonPosition(t, lat, lon)
    \/ \E d \in DaysSinceJ2000 : GetMoonCoords(d)
    \/ \E t \in TimestampsJ2000, lat \in Latitudes, lon \in Longitudes :
            GetPosition(t, lat, lon)
    \/ \E d \in DaysSinceJ2000 : SunCoords(d)
    \/ \E j \in JulianDays \cup ToJulianResult : FromJulian(j)
    \/ \E t \in TimestampsNearEpoch : ToJulian(t)

Spec == Init /\ [][Next]_vars

(***************************************************************************)
(* Properties.  A call "reached the core" when the wrapper passed it to    *)
(* the WASM export: it returned ("ok") or trapped ("trap").                *)
(***************************************************************************)
ReachedCore == call.status \in {"ok", "trap"}
CallReturned(fn) == call.fn = fn /\ call.status = "ok"

\* the 64 bits of a Timestamp read as the caller reads them (unsigned):
\* a <= b, and b - a in milliseconds when the two are less than a day apart
U64Leq(a, b) ==
    \/ a.hi < b.hi
    \/ a.hi = b.hi /\ (a.s < b.s \/ (a.s = b.s /\ a.ms <= b.ms))
PlusHalfDay(a) == [a EXCEPT !.s = a.s + SecondsPerDay \div 2]

\* the Timestamp u equals the timestamp argument t to within 1 ms
WithinOneMs(u, t) ==
    /\ u.hi = 0
    /\ Abs(u.s - t.s) <= 1
    /\ Abs((u.s - t.s) * 1000 + u.ms - t.ms) <= 1

\* C1 as the specification states it: for every timestamp t, negative t
\* included, fromJulian(toJulian(t)) is the Timestamp t to within 1 ms.
C1_RoundTrip ==
    \A t \in TimestampsNearEpoch :
        (CallReturned("fromJulian") /\ call.args = <<toJulian(t)>>)
            => WithinOneMs(call.out, t)

\* C2 as the specification states it: when the hour angle of the -18 degree
\* threshold is undefined, getTimes returns, and the `night` and `nightEnd` it
\* returns are NaN, not a number and not an error.
C2_PolarNightIsNaN ==
    (call.fn = "getTimes" /\ ReachedCore /\ IsNaNDay(call.locals.pairs[5].j_set))
        => /\ call.status = "ok"
           /\ call.out.night.s = NaN
           /\ call.out.nightEnd.s = NaN

\* C3: a wrapper called before `ready` is fulfilled throws and does not reach
\* the exports; a wrapper called once `ready` is fulfilled never throws the
\* initialization error; `ready` is fulfilled only with `exports` assigned.
C3_InitializationGate ==
    /\ ready = "fulfilled" => exports
    /\ call.status # "none" =>
          /\ ~call.readyAtCall => call.status = "throw"
          /\ call.readyAtCall => call.status # "throw"

\* C3's case: a call has thrown the initialization error and the load has
\* since completed
C3_Witness == call.status = "throw" /\ ready = "fulfilled" /\ exports

\* C4: for each of the six pairs of a getTimes call whose j_set is defined,
\* j_noon - j_rise equals j_set - j_noon exactly.
C4_RiseSetSymmetry ==
    (call.fn = "getTimes" /\ ReachedCore) =>
        \A k \in 1..6 :
            ~IsNaNDay(call.locals.pairs[k].j_set) =>
                DaySub(call.locals.j_noon, call.locals.pairs[k].j_rise)
                    = DaySub(call.locals.pairs[k].j_set, call.locals.j_noon)

\* C4's case: a getTimes call with a pair that sets after solar noon and a
\* pair whose j_set is undefined
C4_Witness ==
    /\ call.fn = "getTimes" /\ ReachedCore
    /\ ~IsNaNDay(call.locals.pairs[1].j_set)
    /\ call.locals.pairs[1].j_set # call.locals.j_noon
    /\ IsNaNDay(call.locals.pairs[5].j_set)

\* C5 as the specification states it: when the angle and the fraction that
\* getMoonIllumination computes are NaN (inc is NaN), the Illumination it
\* returns holds 0 in their place.
C5_IlluminationNormalized ==
    (CallReturned("getMoonIllumination") /\ IsNaN(call.locals.inc))
        => call.out.angle = 0 /\ call.out.fraction = 0

\* C6: for a timestamp that is not degenerate, phi and inc lie in [0, PI] and
\* the fraction and the phase that getMoonIllumination returns lie in [0, 1].
C6_IlluminationRange ==
    (CallReturned("getMoonIllumination") /\ ~IsNaNMs(call.args[1])) =>
        /\ call.locals.phi \in 0..PI
        /\ call.locals.inc \in 0..PI
        /\ call.out.fraction \in 0..SC
        /\ call.out.phase \in 0..SC

\* C6's case: a call whose angle is negative (sign = -1) and one whose angle
\* is positive differ in the half of [0, 1] the phase falls in; this is the
\* negative one, away from the ends of the range
C6_Witness ==
    /\ CallReturned("getMoonIllumination")
    /\ ~IsNaN(call.out.angle) /\ call.out.angle < 0
    /\ call.out.phase > 0 /\ call.out.phase < SC \div 2
    /\ call.out.fraction > 0 /\ call.out.fraction < SC

\* C7: no call changes what a later call reads (the static SunTime thresholds,
\* `exports`, the build), so the thresholds stay what the static initialisers
\* made them; and a call with the function and arguments of the call before it
\* has its outcome.
C7_NoHiddenState ==
    [][ /\ exports =>
            /\ exports'
            /\ SunTimeValue = SunTimeStatics
            /\ SunTimeValue' = SunTimeValue
            /\ nontrappingF2I' = nontrappingF2I
        /\ ( /\ ReachedCore
             /\ call'.status \in {"ok", "trap"}
             /\ call'.fn = call.fn
             /\ call'.args = call.args ) => call' = call ]_vars

\* C7's case: a getTimes call with a height correction has returned and the
\* thresholds are those of the static initialisers
C7_Witness ==
    /\ CallReturned("getTimes")
    /\ call.args[4] = MaxHeight
    /\ observerAngle(call.args[4]) < 0
    /\ SunTimeValue = SunTimeStatics

\* C8 as the specification states it: the height correction reaches the first
\* pair only; for the other five pairs h0, and the two times, are those of the
\* call with height 0.
C8_HeightOnlyFirstPair ==
    (call.fn = "getTimes" /\ ReachedCore) =>
        \A k \in 2..6 :
            /\ call.locals.pairs[k].h0 = TimesPiBy180(SunTimeStatics[SunTimeNames[k]])
            /\ call.locals.pairs[k].times
                  = getTimes(call.args[1], call.args[2], call.args[3], 0).pairs[k].times

\* C8 as the code has it: the height correction dh = -2.076 * sqrt(height) / 60
\* is added to the threshold of every one of the six pairs,
\* h0 = (value + dh) * PI / 180.
C8_HeightEveryPair ==
    (call.fn = "getTimes" /\ ReachedCore) =>
        \A k \in 1..6 :
            call.locals.pairs[k].h0
                = TimesPiBy180(SunTimeStatics[SunTimeNames[k]] + observerAngle(call.args[4]))

\* C8's case: a getTimes call with a height above 0 whose dawn and dusk are
\* defined and differ from those of the call with height 0
C8_Witness ==
    /\ CallReturned("getTimes")
    /\ call.args[4] > 0
    /\ ~IsNaNDay(call.locals.pairs[3].j_set)
    /\ call.locals.pairs[3].times
          # getTimes(call.args[1], call.args[2], call.args[3], 0).pairs[3].times

\* the product (j + 0.5 - J1970) * MILLISECONDS_PER_DAY that fromJulian rounds:
\* s * 1000 + ms whole milliseconds, and half a millisecond when half = 1
Product(j) == MulMsPerDay(DaySub(DayAdd(j, Day(0, TicksPerDay \div 2)), Day(J1970, 0)))
\* the result of the fromJulian call minus the whole milliseconds of the product
AboveFloor(x) == (call.out.s - x.s) * 1000 + call.out.ms - x.ms

\* C9 as the specification states it: a product halfway between two integers
\* is rounded away from zero, down when it is negative (-2.5 -> -3).
C9_HalfAwayFromZero ==
    (CallReturned("fromJulian") /\ ~IsNaNDay(call.args[1])) =>
        AboveFloor(Product(call.args[1]))
            = IF Product(call.args[1]).s < 0 THEN 0 ELSE Product(call.args[1]).half

\* C9 as the code has it: Math.round sends a product halfway between two
\* integers to the greater one, when it is negative too (-2.5 -> -2, 2.5 -> 3),
\* and leaves a whole product as it is.
C9_HalfUp ==
    (CallReturned("fromJulian") /\ ~IsNaNDay(call.args[1])) =>
        AboveFloor(Product(call.args[1])) = Product(call.args[1]).half

\* C9's case: fromJulian has rounded a negative product that is halfway
\* between two integers
C9_Witness ==
    /\ CallReturned("fromJulian") /\ ~IsNaNDay(call.args[1])
    /\ Product(call.args[1]).s < 0
    /\ Product(call.args[1]).half = 1

\* the Julian moments of every pair of a getTimes call whose hour angle is
\* defined: j_noon - 0.5 <= j_rise <= j_noon <= j_set <= j_noon + 0.5
JulianOrdered ==
    (call.fn = "getTimes" /\ ReachedCore) =>
        \A k \in 1..6 :
            ~IsNaNDay(call.locals.pairs[k].j_set) =>
                /\ DayLeq(DaySub(call.locals.j_noon, Day(0, TicksPerDay \div 2)),
                          call.locals.pairs[k].j_rise)
                /\ DayLeq(call.locals.pairs[k].j_rise, call.locals.j_noon)
                /\ DayLeq(call.locals.j_noon, call.locals.pairs[k].j_set)
                /\ DayLeq(call.locals.pairs[k].j_set,
                          DayAdd(call.locals.j_noon, Day(0, TicksPerDay \div 2)))

\* C10 as the specification states it: for every pair of a getTimes call whose
\* hour angle is defined, the Julian moments are in the order above and the
\* Timestamps returned are in the order
\* nadir <= rise <= solarNoon <= set <= solarNoon + 12 h.
C10_SunTimesOrdered ==
    /\ JulianOrdered
    /\ CallReturned("getTimes") =>
          \A k \in 1..6 :
              ~IsNaNDay(call.locals.pairs[k].j_set) =>
                  /\ U64Leq(call.out.nadir, call.locals.pairs[k].times[1])
                  /\ U64Leq(call.locals.pairs[k].times[1], call.out.solarNoon)
                  /\ U64Leq(call.out.solarNoon, call.locals.pairs[k].times[2])
                  /\ U64Leq(call.locals.pairs[k].times[2], PlusHalfDay(call.out.solarNoon))

=============================================================================
